---- MODULE Spec2Model ----
(***************************************************************************)
(* Model of the strapi blocks renderer (src/blocks.go).                    *)
(*                                                                         *)
(* A Go string is a sequence of atoms.  An atom is either one character of *)
(* a payload (a text, a url, an alternative text) or one literal piece of  *)
(* a string literal ("<p>", "</p>", "<img src=", "missing image", ...), so *)
(* a literal is one atom whatever its length, concatenation of             *)
(* Go strings is \o and the empty string is << >>.  Payload alphabets hold *)
(* no markup piece, which keeps the flattening to characters injective.    *)
(*                                                                         *)
(* A Go pointer field (Text, Bold, Format, URL, Level, Image, ...) is a    *)
(* sequence of length 0 (nil) or 1 (the value pointed to).                 *)
(*                                                                         *)
(* A call either returns a string or panics (nil dereference):             *)
(* [ok |-> TRUE, s |-> string] or Panic.                                   *)
(***************************************************************************)
EXTENDS Integers, Sequences, FiniteSets, TLC

VARIABLES r, blocks, raw, status, prev

vars == <<r, blocks, raw, status, prev>>

\* ------------------------------------------------------------- data model

BlockTypeParagraph == "paragraph"
BlockTypeText == "text"
BlockTypeList == "list"
BlockTypeLink == "link"
BlockTypeListItem == "list-item"
BlockTypeHeading == "heading"
BlockTypeImage == "image"
BlockTypeQuote == "quote"
BlockTypeCode == "code"

ListFormatUnordered == "unordered"
ListFormatOrdered == "ordered"

KnownTypes ==
  {BlockTypeParagraph, BlockTypeText, BlockTypeList, BlockTypeLink,
   BlockTypeListItem, BlockTypeHeading, BlockTypeImage, BlockTypeQuote,
   BlockTypeCode}

Nil == << >>

Ptr(v) == <<v>>

\* The zero Block of the given type: every pointer nil, no children.
Block(t) ==
  [Type |-> t, Children |-> << >>, Text |-> Nil, Italic |-> Nil,
   Underline |-> Nil, Bold |-> Nil, StrikeThrough |-> Nil, Code |-> Nil,
   Format |-> Nil, URL |-> Nil, Level |-> Nil, Image |-> Nil]

Image(name, alt, url) ==
  [Name |-> name, AlternativeText |-> alt, URL |-> url]

\* ------------------------------------------------------- calls and panics

Ok(s) == [ok |-> TRUE, s |-> s]

Panic == [ok |-> FALSE, s |-> << >>]

\* *p : a nil pointer dereference panics.
Deref(p) == IF p = Nil THEN Panic ELSE Ok(p[1])

\* p != nil && *p
IsTrue(p) == p /= Nil /\ p[1]

\* fmt.Sprintf(pre %s post, arg): the argument is evaluated first, so a
\* panic in it leaves the call.
Sprintf(pre, arg, post) ==
  IF arg.ok THEN Ok(pre \o arg.s \o post) ELSE Panic

\* One character under %q (strconv.Quote): the double quote and the
\* backslash get a backslash in front, a printable character stays.
QuoteChar(c) ==
  IF c = "\"" THEN <<"\\", "\"">>
  ELSE IF c = "\\" THEN <<"\\", "\\">>
  ELSE <<c>>

RECURSIVE QuoteChars(_)
QuoteChars(s) ==
  IF s = << >> THEN << >> ELSE QuoteChar(Head(s)) \o QuoteChars(Tail(s))

\* %q : the Go-syntax double-quoted string.
Quote(s) == <<"\"">> \o QuoteChars(s) \o <<"\"">>

\* --------------------------------------------------------------- renderer

\* The strategy a Renderer field holds: the Renderer itself, or a
\* replacement set by the caller.
Self == "self"
Replaced == "replaced"

New ==
  [ParagraphRenderer |-> Self, TextRenderer |-> Self, ListRenderer |-> Self,
   ListItemRenderer |-> Self, HeadingRenderer |-> Self, LinkRenderer |-> Self,
   ImageRenderer |-> Self, QuoteRenderer |-> Self, CodeRenderer |-> Self]

Fields == DOMAIN New

\* A caller's replacement strategy: a fragment of its own, which names the
\* type it was called for and renders no children.
ReplacedRender(b) == Ok(<<"<x-replaced>", b.Type>>)

\* out := strings.Builder{}
NewBuilder == << >>

\* WriteString that puts the fragment in front of what is written.
WriteStringInFront(out, s) == s \o out

\* out.WriteString(s)
WriteString(out, s) == out \o s

\* EmptyText that takes only a present empty string for empty.
EmptyTextPresentOnly(b) ==
  b.Type = BlockTypeText /\ b.Text /= Nil /\ b.Text[1] = << >>

EmptyText(b) ==
  b.Type = BlockTypeText /\ (b.Text = Nil \/ (b.Text /= Nil /\ b.Text[1] = << >>))

\* RenderText with the italic wrapper applied before the bold one.
RenderTextItalicFirst(rr, b) ==
  LET t == Deref(b.Text)
      o0 == t.s
      o1 == IF IsTrue(b.Italic) THEN <<"<em>">> \o o0 \o <<"</em>">> ELSE o0
      o2 == IF IsTrue(b.Bold) THEN <<"<strong>">> \o o1 \o <<"</strong>">> ELSE o1
      o3 == IF IsTrue(b.Underline) THEN <<"<u>">> \o o2 \o <<"</u>">> ELSE o2
      o4 == IF IsTrue(b.StrikeThrough) THEN <<"<del>">> \o o3 \o <<"</del>">> ELSE o3
      o5 == IF IsTrue(b.Code) THEN <<"<code>">> \o o4 \o <<"</code>">> ELSE o4
  IN IF t.ok THEN Ok(o5) ELSE Panic

RenderText(rr, b) ==
  LET t == Deref(b.Text)
      o0 == t.s
      o1 == IF IsTrue(b.Bold) THEN <<"<strong>">> \o o0 \o <<"</strong>">> ELSE o0
      o2 == IF IsTrue(b.Italic) THEN <<"<em>">> \o o1 \o <<"</em>">> ELSE o1
      o3 == IF IsTrue(b.Underline) THEN <<"<u>">> \o o2 \o <<"</u>">> ELSE o2
      o4 == IF IsTrue(b.StrikeThrough) THEN <<"<del>">> \o o3 \o <<"</del>">> ELSE o3
      o5 == IF IsTrue(b.Code) THEN <<"<code>">> \o o4 \o <<"</code>">> ELSE o4
  IN IF t.ok THEN Ok(o5) ELSE Panic

RenderImage(rr, b) ==
  IF b.Image = Nil THEN Ok(<<"missing image">>)
  ELSE Ok(<<"<img src=">> \o Quote(b.Image[1].URL) \o <<" alt=">>
          \o Quote(b.Image[1].AlternativeText) \o <<" />">>)

RECURSIVE internalRender(_, _)
RECURSIVE renderLoop(_, _, _, _)
RECURSIVE renderBlock(_, _)
RECURSIVE RenderParagraph(_, _)
RECURSIVE RenderList(_, _)
RECURSIVE RenderListItem(_, _)
RECURSIVE RenderHeading(_, _)
RECURSIVE RenderCode(_, _)
RECURSIVE RenderQuote(_, _)
RECURSIVE RenderLink(_, _)

\* for _, block := range blocks { out.WriteString(r.renderBlock(block)) }
renderLoop(rr, bs, i, out) ==
  IF i > Len(bs) THEN Ok(out)
  ELSE LET f == renderBlock(rr, bs[i])
       IN IF f.ok THEN renderLoop(rr, bs, i + 1, WriteString(out, f.s))
          ELSE Panic

internalRender(rr, bs) == renderLoop(rr, bs, 1, NewBuilder)

\* renderBlock with the strategies of quote and code exchanged.
renderBlockSwapped(rr, b) ==
  CASE b.Type = BlockTypeParagraph ->
         IF rr.ParagraphRenderer = Self THEN RenderParagraph(rr, b) ELSE ReplacedRender(b)
    [] b.Type = BlockTypeText ->
         IF rr.TextRenderer = Self THEN RenderText(rr, b) ELSE ReplacedRender(b)
    [] b.Type = BlockTypeList ->
         IF rr.ListRenderer = Self THEN RenderList(rr, b) ELSE ReplacedRender(b)
    [] b.Type = BlockTypeListItem ->
         IF rr.ListItemRenderer = Self THEN RenderListItem(rr, b) ELSE ReplacedRender(b)
    [] b.Type = BlockTypeHeading ->
         IF rr.HeadingRenderer = Self THEN RenderHeading(rr, b) ELSE ReplacedRender(b)
    [] b.Type = BlockTypeLink ->
         IF rr.LinkRenderer = Self THEN RenderLink(rr, b) ELSE ReplacedRender(b)
    [] b.Type = BlockTypeImage ->
         IF rr.ImageRenderer = Self THEN RenderImage(rr, b) ELSE ReplacedRender(b)
    [] b.Type = BlockTypeQuote ->
         IF rr.CodeRenderer = Self THEN RenderCode(rr, b) ELSE ReplacedRender(b)
    [] b.Type = BlockTypeCode ->
         IF rr.QuoteRenderer = Self THEN RenderQuote(rr, b) ELSE ReplacedRender(b)
    [] OTHER ->
         Ok(<<"unsupported block type">>)

renderBlock(rr, b) ==
  CASE b.Type = BlockTypeParagraph ->
         IF rr.ParagraphRenderer = Self THEN RenderParagraph(rr, b) ELSE ReplacedRender(b)
    [] b.Type = BlockTypeText ->
         IF rr.TextRenderer = Self THEN RenderText(rr, b) ELSE ReplacedRender(b)
    [] b.Type = BlockTypeList ->
         IF rr.ListRenderer = Self THEN RenderList(rr, b) ELSE ReplacedRender(b)
    [] b.Type = BlockTypeListItem ->
         IF rr.ListItemRenderer = Self THEN RenderListItem(rr, b) ELSE ReplacedRender(b)
    [] b.Type = BlockTypeHeading ->
         IF rr.HeadingRenderer = Self THEN RenderHeading(rr, b) ELSE ReplacedRender(b)
    [] b.Type = BlockTypeLink ->
         IF rr.LinkRenderer = Self THEN RenderLink(rr, b) ELSE ReplacedRender(b)
    [] b.Type = BlockTypeImage ->
         IF rr.ImageRenderer = Self THEN RenderImage(rr, b) ELSE ReplacedRender(b)
    [] b.Type = BlockTypeQuote ->
         IF rr.QuoteRenderer = Self THEN RenderQuote(rr, b) ELSE ReplacedRender(b)
    [] b.Type = BlockTypeCode ->
         IF rr.CodeRenderer = Self THEN RenderCode(rr, b) ELSE ReplacedRender(b)
    [] OTHER ->
         Ok(<<"unsupported block type">>)

RenderParagraph(rr, b) ==
  IF Len(b.Children) = 1 /\ EmptyText(b.Children[1]) THEN Ok(<<"<br />">>)
  ELSE Sprintf(<<"<p>">>, internalRender(rr, b.Children), <<"</p>">>)

\* RenderList with the two list elements exchanged.
RenderListSwapped(rr, b) ==
  IF b.Format /= Nil /\ b.Format[1] = ListFormatUnordered
    THEN Sprintf(<<"<ol>">>, internalRender(rr, b.Children), <<"</ol>">>)
  ELSE IF b.Format /= Nil /\ b.Format[1] = ListFormatOrdered
    THEN Sprintf(<<"<ul>">>, internalRender(rr, b.Children), <<"</ul>">>)
  ELSE Ok(<<"unsupported list">>)

RenderList(rr, b) ==
  IF b.Format /= Nil /\ b.Format[1] = ListFormatUnordered
    THEN Sprintf(<<"<ul>">>, internalRender(rr, b.Children), <<"</ul>">>)
  ELSE IF b.Format /= Nil /\ b.Format[1] = ListFormatOrdered
    THEN Sprintf(<<"<ol>">>, internalRender(rr, b.Children), <<"</ol>">>)
  ELSE Ok(<<"unsupported list">>)

RenderListItem(rr, b) ==
  Sprintf(<<"<li>">>, internalRender(rr, b.Children), <<"</li>">>)

RenderHeading(rr, b) ==
  IF b.Level = Nil THEN Deref(b.Text)
  ELSE CASE b.Level[1] = 1 -> Sprintf(<<"<h1>">>, internalRender(rr, b.Children), <<"</h1>">>)
         [] b.Level[1] = 2 -> Sprintf(<<"<h2>">>, internalRender(rr, b.Children), <<"</h2>">>)
         [] b.Level[1] = 3 -> Sprintf(<<"<h3>">>, internalRender(rr, b.Children), <<"</h3>">>)
         [] b.Level[1] = 4 -> Sprintf(<<"<h4>">>, internalRender(rr, b.Children), <<"</h4>">>)
         [] b.Level[1] = 5 -> Sprintf(<<"<h5>">>, internalRender(rr, b.Children), <<"</h5>">>)
         [] b.Level[1] = 6 -> Sprintf(<<"<h6>">>, internalRender(rr, b.Children), <<"</h6>">>)
         [] OTHER -> Deref(b.Text)

\* RenderCode closing its two elements in the order it opened them.
RenderCodeMisnested(rr, b) ==
  Sprintf(<<"<pre>", "<code>">>, internalRender(rr, b.Children), <<"</pre>", "</code>">>)

RenderCode(rr, b) ==
  Sprintf(<<"<pre>", "<code>">>, internalRender(rr, b.Children), <<"</code>", "</pre>">>)

\* RenderQuote rendering its children with a Renderer of its own.
RenderQuoteOwnRenderer(rr, b) ==
  Sprintf(<<"<blockquote>">>, internalRender(New, b.Children), <<"</blockquote>">>)

RenderQuote(rr, b) ==
  Sprintf(<<"<blockquote>">>, internalRender(rr, b.Children), <<"</blockquote>">>)

RenderLink(rr, b) ==
  LET url == IF b.URL /= Nil THEN b.URL[1] ELSE <<"#">>
  IN Sprintf(<<"<a href=">> \o Quote(url) \o <<">">>,
             internalRender(rr, b.Children), <<"</a>">>)


\* ---------------------------------------------------------------- actions

\* Renderer.Render (and the package's Render, which is Render of New()):
\* out := r.internalRender(blocks); the string returned is gohtml.Format(out),
\* an external formatter.  raw is out, the string handed to the formatter;
\* prev keeps the outcome of the call before under the same strategies.
Render ==
  LET res == internalRender(r, blocks)
  IN /\ raw' = res.s
     /\ status' = IF res.ok THEN "returned" ELSE "panicked"
     /\ prev' = IF status = "idle" THEN << >>
                ELSE <<[status |-> status, raw |-> raw]>>
     /\ UNCHANGED <<r, blocks>>

\* The most strategies a caller replaces on one Renderer.
MaxReplaced == 1

NumReplaced(rr) == Cardinality({g \in Fields : rr[g] = Replaced})

\* The caller assigns a strategy of its own to one exported field of the
\* Renderer; the outcomes kept belong to the strategies they were rendered
\* with, so they are dropped.
Replace(f) ==
  /\ r[f] = Self
  /\ NumReplaced(r) < MaxReplaced
  /\ r' = [r EXCEPT ![f] = Replaced]
  /\ raw' = << >>
  /\ status' = "idle"
  /\ prev' = << >>
  /\ UNCHANGED blocks

\* ----------------------------------------------------------------- inputs

\* The most nodes of a generated input (below the root, where a
\* specification fixes the root), and of an input over all block types.
MaxNodes == 3
MaxNodesAnyType == 2

\* The longest url or alternative text of a generated image.
MaxLen == 2

\* Every sequence of trees with exactly n nodes in all, each node one of
\* the shapes (a shape is a Block without children).
RECURSIVE ForestsOf(_, _)
ForestsOf(shapes, n) ==
  IF n = 0 THEN {<< >>}
  ELSE UNION {
         {<<[s EXCEPT !.Children = kids]>> \o rest :
            s \in shapes, kids \in ForestsOf(shapes, k - 1),
            rest \in ForestsOf(shapes, n - k)} : k \in 1..n}

Forests(shapes, n) == UNION {ForestsOf(shapes, k) : k \in 0..n}

RECURSIVE Strings(_, _)
Strings(chars, n) ==
  IF n = 0 THEN {<< >>}
  ELSE Strings(chars, n - 1)
       \cup {<<c>> \o s : c \in chars, s \in {t \in Strings(chars, n - 1) : Len(t) = n - 1}}

OptBool == {Nil, Ptr(FALSE), Ptr(TRUE)}

TextOf(p) == [Block(BlockTypeText) EXCEPT !.Text = p]
ListOf(f) == [Block(BlockTypeList) EXCEPT !.Format = f]
HeadingOf(l, t) == [Block(BlockTypeHeading) EXCEPT !.Level = l, !.Text = t]
LinkOf(u) == [Block(BlockTypeLink) EXCEPT !.URL = u]
ImageOf(i) == [Block(BlockTypeImage) EXCEPT !.Image = i]

\* One well-formed shape of each of the nine types, and a type outside.
AnyTypeShapes ==
  {Block(BlockTypeParagraph), TextOf(Ptr(<<"a">>)),
   ListOf(Ptr(ListFormatUnordered)), Block(BlockTypeListItem),
   HeadingOf(Ptr(2), Nil), LinkOf(Ptr(<<"u">>)),
   ImageOf(Ptr(Image(<<"n">>, <<"a">>, <<"u">>))),
   Block(BlockTypeQuote), Block(BlockTypeCode), Block("")}

\* Well-formed and malformed shapes, a text without payload among them.
MixedShapes ==
  {Block(BlockTypeParagraph),
   [TextOf(Ptr(<<"a">>)) EXCEPT !.Bold = Ptr(TRUE), !.Code = Ptr(TRUE)],
   [TextOf(Ptr(<< >>)) EXCEPT !.Italic = Ptr(TRUE), !.Underline = Ptr(TRUE),
      !.StrikeThrough = Ptr(TRUE), !.Bold = Ptr(FALSE)],
   TextOf(Nil),
   ListOf(Ptr(ListFormatOrdered)), ListOf(Ptr(ListFormatUnordered)),
   ListOf(Nil), Block(BlockTypeListItem),
   HeadingOf(Ptr(3), Nil), HeadingOf(Ptr(7), Nil), HeadingOf(Nil, Ptr(<<"h">>)),
   LinkOf(Ptr(<<"\"">>)), LinkOf(Nil), ImageOf(Nil),
   ImageOf(Ptr(Image(<<"n">>, <<"a">>, <<"u">>))),
   Block(BlockTypeQuote), Block(BlockTypeCode), Block("video")}

InitWith(inputs) ==
  /\ r = New
  /\ blocks \in inputs
  /\ raw = << >>
  /\ status = "idle"
  /\ prev = << >>

\* ----------------------------------------------------------- specifications

\* Trees over all block types, rendered with replaceable strategies.
Init == InitWith(Forests(AnyTypeShapes, MaxNodesAnyType))

Next == Render \/ \E f \in Fields : Replace(f)

Spec == Init /\ [][Next]_vars

\* Trees of well-formed and malformed nodes under the default strategies.
InitMixed == InitWith(Forests(MixedShapes, MaxNodesAnyType))

SpecMixed == InitMixed /\ [][Render]_vars

\* Single text nodes: every combination of the five flags, each absent,
\* false or true, on an absent, an empty and a non-empty text.
TextBlocks ==
  {[Block(BlockTypeText) EXCEPT !.Text = t, !.Bold = bo, !.Italic = it,
      !.Underline = un, !.StrikeThrough = st, !.Code = co] :
     t \in {Nil, Ptr(<< >>), Ptr(<<"a", "b">>)},
     bo \in OptBool, it \in OptBool, un \in OptBool, st \in OptBool,
     co \in OptBool}

InitText == InitWith({<<b>> : b \in TextBlocks})

SpecText == InitText /\ [][Render]_vars

\* ---------------------------------------------------------------- C1

Strong == [flag |-> "Bold", open |-> "<strong>", close |-> "</strong>"]
Em == [flag |-> "Italic", open |-> "<em>", close |-> "</em>"]
U == [flag |-> "Underline", open |-> "<u>", close |-> "</u>"]
Del == [flag |-> "StrikeThrough", open |-> "<del>", close |-> "</del>"]
CodeTag == [flag |-> "Code", open |-> "<code>", close |-> "</code>"]

\* The text wrapped by the wrappers of ws whose flag is true on b, the
\* first of ws outermost.
RECURSIVE Nested(_, _, _)
Nested(ws, b, text) ==
  IF ws = << >> THEN text
  ELSE IF b[Head(ws).flag] = Ptr(TRUE)
    THEN <<Head(ws).open>> \o Nested(Tail(ws), b, text) \o <<Head(ws).close>>
  ELSE Nested(Tail(ws), b, text)

SingleText ==
  /\ status /= "idle"
  /\ Len(blocks) = 1
  /\ blocks[1].Type = BlockTypeText
  /\ blocks[1].Text /= Nil

\* C1 as stated: a text node with a text payload renders with its wrappers
\* nested bold, italic, underline, strikethrough, code from outermost to
\* innermost.
C1_BoldOutermost ==
  (r = New /\ SingleText) =>
    /\ status = "returned"
    /\ raw = Nested(<<Strong, Em, U, Del, CodeTag>>, blocks[1], blocks[1].Text[1])

\* C1 amended: a text node with a text payload renders with its wrappers
\* nested code, strikethrough, underline, italic, bold from outermost to
\* innermost: <strong> is directly around the text and <code> is the
\* outermost wrapper of those set.
C1_CodeOutermost ==
  (r = New /\ SingleText) =>
    /\ status = "returned"
    /\ raw = Nested(<<CodeTag, Del, U, Em, Strong>>, blocks[1], blocks[1].Text[1])

\* A text with all five flags set has rendered, <code> outermost.
C1_Witness ==
  /\ r = New /\ SingleText /\ status = "returned"
  /\ blocks[1].Bold = Ptr(TRUE) /\ blocks[1].Italic = Ptr(TRUE)
  /\ blocks[1].Underline = Ptr(TRUE) /\ blocks[1].StrikeThrough = Ptr(TRUE)
  /\ blocks[1].Code = Ptr(TRUE)
  /\ raw = <<"<code>", "<del>", "<u>", "<em>", "<strong>", "a", "b",
             "</strong>", "</em>", "</u>", "</del>", "</code>">>

\* ---------------------------------------------------------------- C5

\* Children of a paragraph: texts that are absent, empty (with and without
\* a flag) and non-empty, a non-text node with an empty text, a leaf that
\* renders a diagnostic, and a paragraph.
ParagraphChildShapes ==
  {TextOf(Nil), TextOf(Ptr(<< >>)), TextOf(Ptr(<<"a">>)),
   [TextOf(Ptr(<< >>)) EXCEPT !.Bold = Ptr(TRUE)],
   [TextOf(Nil) EXCEPT !.Code = Ptr(TRUE)],
   HeadingOf(Nil, Ptr(<< >>)), ImageOf(Nil), Block(BlockTypeParagraph)}

InitParagraph ==
  InitWith({<<[Block(BlockTypeParagraph) EXCEPT !.Children = kids]>> :
              kids \in Forests(ParagraphChildShapes, MaxNodes)})

SpecParagraph == InitParagraph /\ [][Render]_vars

SingleOf(t) ==
  /\ r = New
  /\ status /= "idle"
  /\ Len(blocks) = 1
  /\ blocks[1].Type = t

\* The paragraph has exactly one child, a text node whose text is absent or
\* the empty string.
SoleBlankText(b) ==
  /\ Len(b.Children) = 1
  /\ b.Children[1].Type = BlockTypeText
  /\ b.Children[1].Text \in {Nil, Ptr(<< >>)}

\* C5: a paragraph renders exactly as <br /> if and only if it has exactly
\* one child and that child is a text node whose text is absent or empty,
\* whatever its flags; in every other case it renders as <p> wrapping its
\* rendered children (and does not return when rendering them does not),
\* so a sole blank text child never gives an empty paragraph.
C5_ParagraphLineBreak ==
  SingleOf(BlockTypeParagraph) =>
    LET b == blocks[1]
        kids == internalRender(New, b.Children)
    IN /\ (status = "returned" /\ raw = <<"<br />">>) <=> SoleBlankText(b)
       /\ SoleBlankText(b) => raw /= <<"<p>", "</p>">>
       /\ (~SoleBlankText(b) /\ kids.ok) =>
            (status = "returned" /\ raw = <<"<p>">> \o kids.s \o <<"</p>">>)
       /\ (~SoleBlankText(b) /\ ~kids.ok) => status = "panicked"

\* A paragraph whose sole child is a text node without text, with a flag
\* set, has rendered as the line break.
C5_Witness ==
  /\ SingleOf(BlockTypeParagraph)
  /\ Len(blocks[1].Children) = 1
  /\ blocks[1].Children[1].Type = BlockTypeText
  /\ blocks[1].Children[1].Text = Nil
  /\ blocks[1].Children[1].Code = Ptr(TRUE)
  /\ status = "returned"
  /\ raw = <<"<br />">>

\* ---------------------------------------------------------------- C6

\* Heading nodes: the level absent, in 1..6 and outside it, with and
\* without a text of their own, over children that render.
HeadingLevels == {Nil} \cup {Ptr(n) : n \in -1 .. 7}

HeadingChildShapes == {TextOf(Ptr(<<"a">>)), Block(BlockTypeQuote)}

InitHeading ==
  InitWith({<<[HeadingOf(l, t) EXCEPT !.Children = kids]>> :
              l \in HeadingLevels, t \in {Nil, Ptr(<<"h">>)},
              kids \in Forests(HeadingChildShapes, MaxNodes)})

SpecHeading == InitHeading /\ [][Render]_vars

HeadingOpen == <<"<h1>", "<h2>", "<h3>", "<h4>", "<h5>", "<h6>">>
HeadingClose == <<"</h1>", "</h2>", "</h3>", "</h4>", "</h5>", "</h6>">>

LevelInRange(b) == b.Level /= Nil /\ b.Level[1] \in DOMAIN HeadingOpen

\* The text attribute of a node as a string: nothing when it is absent.
RawText(b) == IF b.Text = Nil THEN << >> ELSE b.Text[1]

\* C6: a heading with level n in 1..6 renders as <hn> wrapping its rendered
\* children, its own text not emitted; a heading whose level is absent or
\* outside 1..6 renders as its raw text, with no wrapper and without its
\* children.
C6_HeadingLevels ==
  SingleOf(BlockTypeHeading) =>
    LET b == blocks[1]
        kids == internalRender(New, b.Children)
    IN IF LevelInRange(b)
         THEN kids.ok =>
                /\ status = "returned"
                /\ raw = <<HeadingOpen[b.Level[1]]>> \o kids.s
                           \o <<HeadingClose[b.Level[1]]>>
         ELSE status = "returned" /\ raw = RawText(b)

\* ---------------------------------------------------------------- C7

\* Lists of every format, list items, and texts with and without payload.
ListShapes ==
  {ListOf(Ptr(ListFormatOrdered)), ListOf(Ptr(ListFormatUnordered)),
   ListOf(Ptr("bullet")), ListOf(Nil), Block(BlockTypeListItem),
   TextOf(Ptr(<<"a">>)), TextOf(Nil)}

InitList == InitWith(Forests(ListShapes, MaxNodes))

SpecList == InitList /\ [][Render]_vars

\* Every node of a sequence of trees, at every depth.
RECURSIVE Nodes(_)
Nodes(bs) ==
  UNION {{bs[i]} \cup Nodes(bs[i].Children) : i \in DOMAIN bs}

\* The element a list of this format renders as, or << >> for none.
ListTags(b) ==
  IF b.Format = Ptr(ListFormatOrdered) THEN <<"<ol>", "</ol>">>
  ELSE IF b.Format = Ptr(ListFormatUnordered) THEN <<"<ul>", "</ul>">>
  ELSE << >>

\* What the claim says a list node renders as, given its rendered children.
ListExpected(b, kids) ==
  IF ListTags(b) = << >> THEN Ok(<<"unsupported list">>)
  ELSE IF kids.ok THEN Ok(<<ListTags(b)[1]>> \o kids.s \o <<ListTags(b)[2]>>)
  ELSE Panic

\* C7: a list renders as <ol> for "ordered" and <ul> for "unordered" around
\* its rendered children, and as the literal "unsupported list", without
\* rendering its children and without panicking, for any other or an absent
\* format; this holds for a list at every depth, and a list that is a child
\* of a list or a list item renders its own fragment inside the enclosing
\* element.
C7_ListFormats ==
  /\ SingleOf(BlockTypeList) =>
       LET e == ListExpected(blocks[1], internalRender(New, blocks[1].Children))
       IN /\ status = (IF e.ok THEN "returned" ELSE "panicked")
          /\ raw = e.s
  /\ \A n \in Nodes(blocks) :
       /\ n.Type = BlockTypeList =>
            renderBlock(r, n) = ListExpected(n, internalRender(r, n.Children))
       /\ \A i \in DOMAIN n.Children :
            LET c == n.Children[i]
                open == IF n.Type = BlockTypeList THEN ListTags(n)[1] ELSE "<li>"
                close == IF n.Type = BlockTypeList THEN ListTags(n)[2] ELSE "</li>"
                before == internalRender(r, SubSeq(n.Children, 1, i - 1))
                after == internalRender(r, SubSeq(n.Children, i + 1, Len(n.Children)))
            IN (/\ c.Type = BlockTypeList
                /\ \/ n.Type = BlockTypeListItem
                   \/ n.Type = BlockTypeList /\ ListTags(n) /= << >>
                /\ renderBlock(r, n).ok) =>
                 renderBlock(r, n).s =
                   <<open>> \o before.s \o renderBlock(r, c).s \o after.s \o <<close>>

\* A list in a list item in a list has rendered, each inside the other.
C7_Witness ==
  /\ SingleOf(BlockTypeList)
  /\ status = "returned"
  /\ Len(blocks[1].Children) = 1
  /\ blocks[1].Children[1].Type = BlockTypeListItem
  /\ Len(blocks[1].Children[1].Children) = 1
  /\ blocks[1].Children[1].Children[1].Type = BlockTypeList
  /\ raw = <<"<ul>", "<li>", "<ol>", "</ol>", "</li>", "</ul>">>

\* A list without a format over a text without payload has rendered as the
\* diagnostic: its child was not rendered.
C7_WitnessUnsupported ==
  /\ SingleOf(BlockTypeList)
  /\ blocks[1].Format = Nil
  /\ Len(blocks[1].Children) = 1
  /\ blocks[1].Children[1] = TextOf(Nil)
  /\ status = "returned"
  /\ raw = <<"unsupported list">>

\* ---------------------------------------------------------------- C9

\* Characters of a url and of an alternative text: a plain one, the double
\* quote and the backslash.
AttrChars == {"u", "\"", "\\"}

\* Image nodes without payload and with every payload of urls and
\* alternative texts up to MaxLen characters, with and without a child.
InitImage ==
  InitWith({<<[ImageOf(i) EXCEPT !.Children = kids]>> :
              i \in {Nil} \cup {Ptr(Image(n, a, u)) :
                                  n \in {<< >>, <<"n">>},
                                  a \in Strings(AttrChars, MaxLen),
                                  u \in Strings(AttrChars, MaxLen)},
              kids \in {<< >>, <<TextOf(Ptr(<<"a">>))>>}})

SpecImage == InitImage /\ [][Render]_vars

\* The characters of s before its first double quote: the value of an HTML
\* attribute whose double-quoted value starts s.
RECURSIVE UpToQuote(_)
UpToQuote(s) ==
  IF s = << >> \/ Head(s) = "\"" THEN << >>
  ELSE <<Head(s)>> \o UpToQuote(Tail(s))

From(s, i) == SubSeq(s, i, Len(s))

\* s is exactly one self-closing img element with the double-quoted
\* attributes src and alt, in this order, of these values.
IsImgElement(s, src, alt) ==
  /\ Len(s) >= 2 /\ s[1] = "<img src=" /\ s[2] = "\""
  /\ UpToQuote(From(s, 3)) = src
  /\ LET t == From(s, 3 + Len(src))
     IN /\ Len(t) >= 3 /\ t[1] = "\"" /\ t[2] = " alt=" /\ t[3] = "\""
        /\ UpToQuote(From(t, 4)) = alt
        /\ From(t, 4 + Len(alt)) = <<"\"", " />">>

\* C9: an image node without payload renders exactly "missing image"; with
\* a payload it renders one self-closing img element whose src attribute
\* equals the payload's url and whose alt attribute equals its alternative
\* text, whatever the payload's name and the node's children.
C9_ImageElement ==
  SingleOf(BlockTypeImage) =>
    /\ status = "returned"
    /\ IF blocks[1].Image = Nil THEN raw = <<"missing image">>
       ELSE IsImgElement(raw, blocks[1].Image[1].URL,
                         blocks[1].Image[1].AlternativeText)

\* ---------------------------------------------------------------- C2

DefaultReturned == r = New /\ status = "returned"

\* C2: a render of a tree in which every text node carries a text payload
\* returns, whatever the other nodes look like.
C2_NeverAborts ==
  (/\ r = New
   /\ status /= "idle"
   /\ \A n \in Nodes(blocks) : n.Type = BlockTypeText => n.Text /= Nil) =>
    status = "returned"

\* ---------------------------------------------------------------- C3

\* The paired elements of the output: the opening and the closing tag.
Elements ==
  {<<"<p>", "</p>">>, <<"<strong>", "</strong>">>, <<"<em>", "</em>">>,
   <<"<u>", "</u>">>, <<"<del>", "</del>">>, <<"<code>", "</code>">>,
   <<"<ul>", "</ul>">>, <<"<ol>", "</ol>">>, <<"<li>", "</li>">>,
   <<"<h1>", "</h1>">>, <<"<h2>", "</h2>">>, <<"<h3>", "</h3>">>,
   <<"<h4>", "</h4>">>, <<"<h5>", "</h5>">>, <<"<h6>", "</h6>">>,
   <<"<pre>", "</pre>">>, <<"<blockquote>", "</blockquote>">>}

OpeningTags == {e[1] : e \in Elements}
ClosingTags == {e[2] : e \in Elements} \cup {"</a>"}
ClosingOf(open) == (CHOOSE e \in Elements : e[1] = open)[2]

\* The pieces that end a tag with attributes, and that occur only in one.
TagPieces == {">", " />", " alt="}

Holds(s, a) == \E i \in DOMAIN s : s[i] = a

\* What follows the first atom a in a string s that holds one.
RECURSIVE After(_, _)
After(s, a) ==
  IF s = << >> THEN << >>
  ELSE IF Head(s) = a THEN Tail(s)
  ELSE After(Tail(s), a)

\* s is well-formed below the open elements of stack (the closing tags
\* owed, innermost first): tags are paired and properly nested, an anchor
\* tag runs to its ">", and <br /> and <img ... /> are the only tags
\* without a partner.  Everything else is text.
RECURSIVE Balanced(_, _)
Balanced(s, stack) ==
  IF s = << >> THEN stack = << >>
  ELSE LET a == Head(s)
       IN CASE a \in OpeningTags -> Balanced(Tail(s), <<ClosingOf(a)>> \o stack)
            [] a \in ClosingTags ->
                 /\ stack /= << >>
                 /\ Head(stack) = a
                 /\ Balanced(Tail(s), Tail(stack))
            [] a = "<a href=" ->
                 /\ Holds(Tail(s), ">")
                 /\ Balanced(After(Tail(s), ">"), <<"</a>">> \o stack)
            [] a = "<img src=" ->
                 /\ Holds(Tail(s), " />")
                 /\ Balanced(After(Tail(s), " />"), stack)
            [] a \in TagPieces -> FALSE
            [] OTHER -> Balanced(Tail(s), stack)

\* C3: whenever rendering returns, the raw markup handed to the formatter
\* is well-formed: every opening tag has its closing tag, tags are properly
\* nested, and <br /> and <img ... /> are the only unpaired tags; payloads
\* are opaque text.
C3_WellFormed == DefaultReturned => Balanced(raw, << >>)

\* A link around a code block has rendered.
C3_Witness ==
  /\ DefaultReturned
  /\ Len(blocks) = 1
  /\ blocks[1].Type = BlockTypeLink
  /\ Len(blocks[1].Children) = 1
  /\ blocks[1].Children[1].Type = BlockTypeCode
  /\ raw = <<"<a href=", "\"", "\\", "\"", "\"", ">",
             "<pre>", "<code>", "</code>", "</pre>", "</a>">>

\* ---------------------------------------------------------------- C4

\* Top-level blocks with fragments that differ, one of them a tree, and a
\* text without payload.
SequenceShapes ==
  {TextOf(Ptr(<<"a">>)), [TextOf(Ptr(<<"b">>)) EXCEPT !.Bold = Ptr(TRUE)],
   TextOf(Nil), Block(BlockTypeParagraph), ImageOf(Nil), Block("video")}

InitSequence == InitWith(Forests(SequenceShapes, MaxNodes))

SpecSequence == InitSequence /\ [][Render]_vars

\* The fragments of the blocks from the i-th on, each block rendered on its
\* own, one after the other.
RECURSIVE FragmentsFrom(_, _)
FragmentsFrom(bs, i) ==
  IF i > Len(bs) THEN << >>
  ELSE internalRender(New, <<bs[i]>>).s \o FragmentsFrom(bs, i + 1)

\* C4: the raw output of a sequence of blocks is the concatenation, in
\* input order, of the fragments of each block rendered on its own (and the
\* render returns exactly if each of them does); the raw output of two
\* sequences one after the other is the concatenation of their raw
\* outputs; and rendering the same tree again gives the same outcome.
C4_Concatenation ==
  (r = New /\ status /= "idle") =>
    /\ status = "returned" <=>
         \A i \in DOMAIN blocks : internalRender(New, <<blocks[i]>>).ok
    /\ status = "returned" => raw = FragmentsFrom(blocks, 1)
    /\ \A k \in 0 .. Len(blocks) :
         LET a == internalRender(New, SubSeq(blocks, 1, k))
             b == internalRender(New, SubSeq(blocks, k + 1, Len(blocks)))
         IN /\ status = "returned" <=> (a.ok /\ b.ok)
            /\ status = "returned" => raw = a.s \o b.s
    /\ prev /= << >> => prev[1] = [status |-> status, raw |-> raw]

\* Three blocks with three different fragments have rendered twice.
C4_Witness ==
  /\ DefaultReturned
  /\ prev /= << >>
  /\ Len(blocks) = 3
  /\ raw = <<"a", "unsupported block type", "<strong>", "b", "</strong>">>

\* ---------------------------------------------------------------- C8

\* The strategy field that belongs to each known type.
FieldOf(t) ==
  CASE t = BlockTypeParagraph -> "ParagraphRenderer"
    [] t = BlockTypeText -> "TextRenderer"
    [] t = BlockTypeList -> "ListRenderer"
    [] t = BlockTypeListItem -> "ListItemRenderer"
    [] t = BlockTypeHeading -> "HeadingRenderer"
    [] t = BlockTypeLink -> "LinkRenderer"
    [] t = BlockTypeImage -> "ImageRenderer"
    [] t = BlockTypeQuote -> "QuoteRenderer"
    [] t = BlockTypeCode -> "CodeRenderer"

\* The piece the default rule of each known type starts a fragment with.
FirstPiece(b) ==
  CASE b.Type = BlockTypeParagraph ->
         IF SoleBlankText(b) THEN "<br />" ELSE "<p>"
    [] b.Type = BlockTypeText -> Head(Nested(<<CodeTag, Del, U, Em, Strong>>, b, RawText(b)))
    [] b.Type = BlockTypeList -> ListTags(b)[1]
    [] b.Type = BlockTypeListItem -> "<li>"
    [] b.Type = BlockTypeHeading -> HeadingOpen[b.Level[1]]
    [] b.Type = BlockTypeLink -> "<a href="
    [] b.Type = BlockTypeImage -> "<img src="
    [] b.Type = BlockTypeQuote -> "<blockquote>"
    [] b.Type = BlockTypeCode -> "<pre>"

Without(bs, i) == SubSeq(bs, 1, i - 1) \o SubSeq(bs, i + 1, Len(bs))

\* C8: a node of a known type is rendered by the strategy of its own type
\* and of no other: by the replacement exactly if the field of its type is
\* replaced, and else by the default rule of its type; a node of any other
\* type yields exactly "unsupported block type" at its position, and the
\* fragments before and after it are those of the sequence without it.
C8_Dispatch ==
  /\ \A n \in Nodes(blocks) :
       LET f == renderBlock(r, n)
       IN IF n.Type \in KnownTypes
            THEN /\ f.ok
                 /\ f.s = <<"<x-replaced>", n.Type>> <=> r[FieldOf(n.Type)] = Replaced
                 /\ r[FieldOf(n.Type)] = Self => Head(f.s) = FirstPiece(n)
            ELSE f = Ok(<<"unsupported block type">>)
  /\ status = "returned" =>
       \A i \in DOMAIN blocks :
         blocks[i].Type \notin KnownTypes =>
           LET before == internalRender(r, SubSeq(blocks, 1, i - 1)).s
               after == internalRender(r, SubSeq(blocks, i + 1, Len(blocks))).s
           IN /\ raw = before \o <<"unsupported block type">> \o after
              /\ internalRender(r, Without(blocks, i)).s = before \o after

\* A block of an unknown type, the empty string, has rendered after a
\* block of a known type.
C8_Witness ==
  /\ DefaultReturned
  /\ Len(blocks) = 2
  /\ blocks[1].Type = BlockTypeQuote
  /\ blocks[2].Type = ""
  /\ raw = <<"<blockquote>", "</blockquote>", "unsupported block type">>

\* --------------------------------------------------------------- C10

ReplacedTypes(rr) == {t \in KnownTypes : rr[FieldOf(t)] = Replaced}

\* The closed switch over the type, with the rules of the nine types as
\* the specification gives them; a node of a type in T is handed to the
\* replacement instead.
RECURSIVE SwitchOne(_, _)
RECURSIVE SwitchAll(_, _)
SwitchAll(bs, T) ==
  IF bs = << >> THEN << >> ELSE SwitchOne(Head(bs), T) \o SwitchAll(Tail(bs), T)

SwitchOne(b, T) ==
  LET kids == SwitchAll(b.Children, T)
  IN CASE b.Type \in T -> <<"<x-replaced>", b.Type>>
       [] b.Type \notin T /\ b.Type = BlockTypeParagraph ->
            IF SoleBlankText(b) THEN <<"<br />">> ELSE <<"<p>">> \o kids \o <<"</p>">>
       [] b.Type \notin T /\ b.Type = BlockTypeText ->
            Nested(<<CodeTag, Del, U, Em, Strong>>, b, RawText(b))
       [] b.Type \notin T /\ b.Type = BlockTypeList ->
            IF ListTags(b) = << >> THEN <<"unsupported list">>
            ELSE <<ListTags(b)[1]>> \o kids \o <<ListTags(b)[2]>>
       [] b.Type \notin T /\ b.Type = BlockTypeListItem ->
            <<"<li>">> \o kids \o <<"</li>">>
       [] b.Type \notin T /\ b.Type = BlockTypeHeading ->
            IF LevelInRange(b)
              THEN <<HeadingOpen[b.Level[1]]>> \o kids \o <<HeadingClose[b.Level[1]]>>
            ELSE RawText(b)
       [] b.Type \notin T /\ b.Type = BlockTypeLink ->
            <<"<a href=">> \o Quote(IF b.URL = Nil THEN <<"#">> ELSE b.URL[1])
              \o <<">">> \o kids \o <<"</a>">>
       [] b.Type \notin T /\ b.Type = BlockTypeImage ->
            IF b.Image = Nil THEN <<"missing image">>
            ELSE <<"<img src=">> \o Quote(b.Image[1].URL) \o <<" alt=">>
                   \o Quote(b.Image[1].AlternativeText) \o <<" />">>
       [] b.Type \notin T /\ b.Type = BlockTypeQuote ->
            <<"<blockquote>">> \o kids \o <<"</blockquote>">>
       [] b.Type \notin T /\ b.Type = BlockTypeCode ->
            <<"<pre>", "<code>">> \o kids \o <<"</code>", "</pre>">>
       [] OTHER -> <<"unsupported block type">>

\* C10: a Renderer from New() holds itself in all nine strategy fields and
\* renders every tree as the closed switch does; with the strategy of one
\* type replaced, every node of that type, at every depth the default
\* rules reach, is rendered by the replacement and every node of another
\* type as in the default configuration.
C10_Refinement ==
  /\ ReplacedTypes(r) = {} => r = New
  /\ r = New => \A f \in Fields : r[f] = Self
  /\ status /= "idle" =>
       /\ status = "returned"
       /\ raw = SwitchAll(blocks, ReplacedTypes(r))

\* With the text strategy replaced, a text inside a quote, which the
\* default rule renders, has been rendered by the replacement.
C10_Witness ==
  /\ ReplacedTypes(r) = {BlockTypeText}
  /\ status = "returned"
  /\ Len(blocks) = 1
  /\ blocks[1].Type = BlockTypeQuote
  /\ raw = <<"<blockquote>", "<x-replaced>", "text", "</blockquote>">>

====
